---- MODULE Spec2Model ----
(***************************************************************************)
(* The request-dispatch core of controller/relay-controller.go: channel    *)
(* selection (filterChannels, getPriority, getRandomChannel,               *)
(* GetRandomChannel, getChannelWithFallback), the attempt executor         *)
(* (RelayHelper), admission and first attempt (relay), and the retry       *)
(* coordinator (initRetryState, retryLoop, getRetryChannel,                *)
(* handleRetryResult).                                                     *)
(*                                                                         *)
(* A channel pointer is a record [id, status, priority]; the nil pointer   *)
(* is NilChannel.  A *HandleResult is a record [isNil, hasError,           *)
(* statusCode]; the nil pointer is NilResult.  A float64 error rate is an  *)
(* integer number of hundredths (30 is 0.30).                              *)
(***************************************************************************)
EXTENDS Integers, Sequences, FiniteSets, TLC

(* ------------------------------ bounds -------------------------------- *)

\* Channel ids are 1..NumChannels.
NumChannels == 2

\* config.GetRetryTimes() ranges over 0..MaxRetryTimes.
MaxRetryTimes == 2

\* Channel priorities range over 0..MaxPriority where the selector is
\* applied to drawn inputs.
MaxPriority == 2

\* The priority of every channel a request meets.
RequestPriority == 1

(* ------------------------- program constants -------------------------- *)

StatusOK == 200
StatusBadRequest == 400
StatusUnauthorized == 401
StatusPaymentRequired == 402
StatusForbidden == 403
StatusNotFound == 404
StatusRequestEntityTooLarge == 413
StatusTooManyRequests == 429
StatusInternalServerError == 500
StatusServiceUnavailable == 503

ChannelStatusEnabled == "Enabled"
ChannelStatusDisabled == "Disabled"

ErrChannelsNotFound == "channels not found"
ErrChannelsExhausted == "channels exhausted"
ErrNil == "nil"
\* The panic of rand.Int32N on a non-positive argument.
ErrPanic == "panic: invalid argument to Int32N"

ChannelIDs == 1..NumChannels

NilChannel == [id |-> 0, status |-> "nil", priority |-> 0]
\* A *HandleResult; attempt is the identity of the object: the number of the
\* attempt whose handler call returned it.
NilResult == [isNil |-> TRUE, hasError |-> FALSE, statusCode |-> 0, attempt |-> 0]

\* A *meta.Meta; attempt is the identity of the object: the number of the
\* attempt it was built for.
NilMeta == [channel |-> NilChannel, attempt |-> 0]

(* --------------------------- small helpers ----------------------------- *)

\* slices.Contains
Contains(s, x) == \E k \in 1..Len(s) : s[k] = x

\* errorRates[id] of a Go map: the zero value for a missing key.
MapGet(errorRates, id) ==
    IF id \in DOMAIN errorRates THEN errorRates[id] ELSE 0

MaxInt32 == 2147483647
MinInt32 == -MaxInt32 - 1

\* a + b of two Go int32 values: two's complement wrap-around.
AddInt32(a, b) ==
    IF b > 0 /\ a > MaxInt32 - b THEN (a - MaxInt32 - 1) + (b - MaxInt32 - 1)
    ELSE IF b < 0 /\ a < MinInt32 - b THEN (a + MaxInt32 + 1) + (b + MaxInt32 + 1)
    ELSE a + b

\* a - b of two Go int32 values.
SubInt32(a, b) ==
    IF b = MinInt32 THEN AddInt32(AddInt32(a, MaxInt32), 1) ELSE AddInt32(a, -b)

\* int32(float64(p) / (e / 100)) for an int32 p >= 0 and 10 <= e <= 100: the
\* quotient truncated when it fits an int32, and the amd64 "integer
\* indefinite" value MinInt32 when it does not.
Int32OfQuotient(p, e) ==
    LET hi == p \div e
        lo == ((p % e) * 100) \div e
    IN  IF hi > MaxInt32 \div 100 \/ (hi = MaxInt32 \div 100 /\ lo > MaxInt32 % 100)
        THEN MinInt32
        ELSE hi * 100 + lo

\* All orderings of a finite set as sequences without repetition.
RECURSIVE Perms(_)
Perms(S) ==
    IF S = {} THEN {<<>>}
    ELSE UNION {{<<x>> \o p : p \in Perms(S \ {x})} : x \in S}

(* --------------------------- classification --------------------------- *)

\* A shouldRetry that knows one client-fault status only.
shouldRetryOnlyBadRequest(statusCode) == statusCode # StatusBadRequest

\* shouldRetry: every status but 400 and 413.
shouldRetry(statusCode) ==
    /\ statusCode # StatusBadRequest
    /\ statusCode # StatusRequestEntityTooLarge

channelNoPermissionStatusCodesMap ==
    {StatusUnauthorized, StatusPaymentRequired, StatusForbidden, StatusNotFound}

\* A channelHasPermission whose table lacks 403.
channelHasPermissionLackingForbidden(statusCode) ==
    statusCode \notin {StatusUnauthorized, StatusPaymentRequired, StatusNotFound}

channelHasPermission(statusCode) ==
    statusCode \notin channelNoPermissionStatusCodesMap

\* A shouldDelay that delays after a 503 instead of a 429.
shouldDelayOnUnavailable(statusCode) == statusCode = StatusServiceUnavailable

shouldDelay(statusCode) == statusCode = StatusTooManyRequests

(* --------------------------- channel selector ------------------------- *)

\* A filterChannels that does not look at the ignore list.
filterChannelsKeepingIgnored(chs, ignoreChannel) ==
    SelectSeq(chs, LAMBDA ch : ch.status = ChannelStatusEnabled)

\* filterChannels: the Enabled channels whose id is not ignored, in order.
filterChannels(chs, ignoreChannel) ==
    SelectSeq(chs, LAMBDA ch :
        /\ ch.status = ChannelStatusEnabled
        /\ ~Contains(ignoreChannel, ch.id))

\* (*Channel).GetPriority: the channel's configured priority.
GetPriority(ch) == ch.priority

\* getPriority: int32(float64(priority) / clamp(errorRate, 0.1, 1)).
getPriority(ch, errorRate) ==
    LET e == IF errorRate > 100 THEN 100
             ELSE IF errorRate < 10 THEN 10
             ELSE errorRate
    IN  Int32OfQuotient(GetPriority(ch), e)

\* cachedPrioritys of getRandomChannel, for the filtered list.
cachedPrioritys(filtered, errorRates) ==
    [k \in 1..Len(filtered) |-> getPriority(filtered[k], MapGet(errorRates, filtered[k].id))]

\* totalWeight of getRandomChannel: the int32 sum of the weights.
RECURSIVE SumWeights(_, _)
SumWeights(ws, n) ==
    IF n = 0 THEN 0 ELSE AddInt32(SumWeights(ws, n - 1), ws[n])

totalWeight(filtered, errorRates) ==
    SumWeights(cachedPrioritys(filtered, errorRates), Len(filtered))

\* A walk that also stops when r reaches zero.
RECURSIVE WalkStoppingAtZero(_, _, _)
WalkStoppingAtZero(ws, r, k) ==
    IF k > Len(ws) THEN 0
    ELSE LET r2 == SubInt32(r, ws[k])
         IN  IF r2 <= 0 THEN k ELSE WalkStoppingAtZero(ws, r2, k + 1)

\* The cumulative walk of getRandomChannel for the draw r: the index of the
\* first channel at which r goes negative, 0 when the loop ends without one.
RECURSIVE Walk(_, _, _)
Walk(ws, r, k) ==
    IF k > Len(ws) THEN 0
    ELSE LET r2 == SubInt32(r, ws[k])
         IN  IF r2 < 0 THEN k ELSE Walk(ws, r2, k + 1)

\* A getRandomChannel that filters before it looks whether there is any
\* candidate, and so reports an emptied list as no list.
getRandomChannelFilteringFirst(chs, errorRates, ignoreChannel, r, u) ==
    LET filtered == filterChannels(chs, ignoreChannel)
        n == Len(filtered)
        ws == cachedPrioritys(filtered, errorRates)
        W == totalWeight(filtered, errorRates)
    IN  IF n = 0 THEN [channel |-> NilChannel, err |-> ErrChannelsNotFound]
        ELSE IF n = 1 THEN [channel |-> filtered[1], err |-> ErrNil]
        ELSE IF W = 0 THEN [channel |-> filtered[(u % n) + 1], err |-> ErrNil]
        ELSE IF W < 0 THEN [channel |-> NilChannel, err |-> ErrPanic]
        ELSE LET k == Walk(ws, r % W, 1)
             IN  IF k # 0 THEN [channel |-> filtered[k], err |-> ErrNil]
                 ELSE [channel |-> filtered[(u % n) + 1], err |-> ErrNil]

\* getRandomChannel with its random numbers given: r is the value of
\* rand.Int32N(totalWeight), u the value of rand.IntN(len(channels)),
\* each taken modulo its range.
getRandomChannel(chs, errorRates, ignoreChannel, r, u) ==
    LET filtered == filterChannels(chs, ignoreChannel)
        n == Len(filtered)
        ws == cachedPrioritys(filtered, errorRates)
        W == totalWeight(filtered, errorRates)
    IN  IF Len(chs) = 0 THEN [channel |-> NilChannel, err |-> ErrChannelsNotFound]
        ELSE IF n = 0 THEN [channel |-> NilChannel, err |-> ErrChannelsExhausted]
        ELSE IF n = 1 THEN [channel |-> filtered[1], err |-> ErrNil]
        ELSE IF W = 0 THEN [channel |-> filtered[(u % n) + 1], err |-> ErrNil]
        ELSE IF W < 0 THEN [channel |-> NilChannel, err |-> ErrPanic]
        ELSE LET k == Walk(ws, r % W, 1)
             IN  IF k # 0 THEN [channel |-> filtered[k], err |-> ErrNil]
                 ELSE [channel |-> filtered[(u % n) + 1], err |-> ErrNil]

\* The random numbers getRandomChannel can draw on these inputs, as pairs
\* <<r, u>>: r from [0, totalWeight) when the weighted walk is reached, u
\* from [0, len) when a uniform pick is reached, 0 for a number not drawn.
Draws(chs, errorRates, ignoreChannel) ==
    LET filtered == filterChannels(chs, ignoreChannel)
        n == Len(filtered)
        ws == cachedPrioritys(filtered, errorRates)
        W == totalWeight(filtered, errorRates)
    IN  IF Len(chs) = 0 \/ n < 2 \/ W < 0 THEN {<<0, 0>>}
        ELSE IF W = 0 THEN {<<0, u>> : u \in 0..(n - 1)}
        ELSE UNION {IF Walk(ws, r, 1) # 0 THEN {<<r, 0>>}
                    ELSE {<<r, u>> : u \in 0..(n - 1)} : r \in 0..(W - 1)}

\* Every result getRandomChannel can return on these inputs.
getRandomChannelResults(chs, errorRates, ignoreChannel) ==
    {getRandomChannel(chs, errorRates, ignoreChannel, d[1], d[2]) :
        d \in Draws(chs, errorRates, ignoreChannel)}

(* ------------------- candidate list and fallback ----------------------- *)

\* Names of availability sets.
SetNames == {"a", "b"}

\* mc.EnabledModel2ChannelsBySet[set][modelName] of a Go map: nil when absent.
SetChannels(mc, set) == IF set \in DOMAIN mc THEN mc[set] ELSE <<>>

\* The channels of the available sets, in the order the loops visit them.
RECURSIVE VisitedChannels(_, _, _)
VisitedChannels(mc, availableSet, n) ==
    IF n = 0 THEN <<>>
    ELSE VisitedChannels(mc, availableSet, n - 1) \o SetChannels(mc, availableSet[n])

\* channelMap of GetRandomChannel: for each id the channel stored last.
channelMap(mc, availableSet) ==
    LET visited == VisitedChannels(mc, availableSet, Len(availableSet))
        ids == {visited[k].id : k \in 1..Len(visited)}
        last(id) == CHOOSE k \in 1..Len(visited) :
                        /\ visited[k].id = id
                        /\ \A j \in (k + 1)..Len(visited) : visited[j].id # id
    IN  [id \in ids |-> visited[last(id)]]

\* The lists GetRandomChannel can build from channelMap: Go iterates a map
\* in an unspecified order.
migratedChannelsOf(mc, availableSet) ==
    LET cm == channelMap(mc, availableSet)
    IN  {[k \in 1..Len(p) |-> cm[p[k]]] : p \in Perms(DOMAIN cm)}

\* Every (channel, migratedChannels, err) GetRandomChannel can return.
GetRandomChannel(mc, availableSet, errorRates, ignoreChannel) ==
    UNION {{[channel |-> res.channel, migratedChannels |-> migrated, err |-> res.err] :
                res \in getRandomChannelResults(migrated, errorRates, ignoreChannel)} :
           migrated \in migratedChannelsOf(mc, availableSet)}

\* Every (channel, migratedChannels, err) getChannelWithFallback can return,
\* with the number of selections made: a second one, with no ignore list,
\* after ErrChannelsExhausted.
getChannelWithFallback(mc, availableSet, errorRates, ignoreChannelIDs) ==
    LET first == GetRandomChannel(mc, availableSet, errorRates, ignoreChannelIDs)
        second == GetRandomChannel(mc, availableSet, errorRates, <<>>)
        Called(res, n) == [channel |-> res.channel, migratedChannels |-> res.migratedChannels,
                           err |-> res.err, calls |-> n]
    IN  {Called(res, 1) : res \in {x \in first : x.err # ErrChannelsExhausted}}
        \cup (IF \E res \in first : res.err = ErrChannelsExhausted
              THEN {Called(res, 2) : res \in second}
              ELSE {})

\* GetRandomChannel when the map iteration visits the ids in this order and
\* the random numbers are r and u.
GetRandomChannelRun(mc, availableSet, errorRates, ignoreChannel, order, r, u) ==
    LET cm == channelMap(mc, availableSet)
        migrated == [k \in 1..Len(order) |-> cm[order[k]]]
        res == getRandomChannel(migrated, errorRates, ignoreChannel, r, u)
    IN  [channel |-> res.channel, migratedChannels |-> migrated, err |-> res.err]

\* A getChannelWithFallback whose second selection keeps the ignore list.
getChannelWithFallbackRunKeepingIgnored(mc, availableSet, errorRates, ignoreChannelIDs, orders, r, u) ==
    LET first == GetRandomChannelRun(mc, availableSet, errorRates, ignoreChannelIDs,
                                     orders[1], r, u)
        second == GetRandomChannelRun(mc, availableSet, errorRates, ignoreChannelIDs,
                                      orders[2], r, u)
    IN  IF first.err = ErrNil
        THEN [channel |-> first.channel, migratedChannels |-> first.migratedChannels,
              err |-> ErrNil, calls |-> 1]
        ELSE IF first.err # ErrChannelsExhausted
        THEN [channel |-> NilChannel, migratedChannels |-> first.migratedChannels,
              err |-> first.err, calls |-> 1]
        ELSE [channel |-> second.channel, migratedChannels |-> second.migratedChannels,
              err |-> second.err, calls |-> 2]

\* getChannelWithFallback when the two map iterations visit the ids in the
\* orders orders[1] and orders[2] and the random numbers are r and u: the
\* first call draws nothing when it ends with ErrChannelsExhausted, so the
\* second call draws the same numbers.
getChannelWithFallbackRun(mc, availableSet, errorRates, ignoreChannelIDs, orders, r, u) ==
    LET first == GetRandomChannelRun(mc, availableSet, errorRates, ignoreChannelIDs,
                                     orders[1], r, u)
        second == GetRandomChannelRun(mc, availableSet, errorRates, <<>>, orders[2], r, u)
    IN  IF first.err = ErrNil
        THEN [channel |-> first.channel, migratedChannels |-> first.migratedChannels,
              err |-> ErrNil, calls |-> 1]
        ELSE IF first.err # ErrChannelsExhausted
        THEN [channel |-> NilChannel, migratedChannels |-> first.migratedChannels,
              err |-> first.err, calls |-> 1]
        ELSE [channel |-> second.channel, migratedChannels |-> second.migratedChannels,
              err |-> second.err, calls |-> 2]

\* The orders in which the two map iterations of one run can visit the ids.
IterationOrders(mc, availableSet) ==
    LET ps == Perms(DOMAIN channelMap(mc, availableSet))
    IN  ps \X ps

(* ------------------------------ the request ---------------------------- *)

VARIABLES
    pc,            \* position of the request in relay / retryLoop
    ctxCancelled,  \* c.Request.Context().Err() != nil
    initial,       \* the *initialChannel of getInitialChannel
    admission,     \* how the admission gate ended
    balanceFailed, \* gbc.CheckBalance was called and answered false
    cfgRetryTimes, \* config.GetRetryTimes() as read by relay
    meta,          \* relay's meta: the first attempt's
    result,        \* relay's result: the first attempt's
    state,         \* the *retryState
    i,             \* retryLoop's i
    newChannel,    \* retryLoop's newChannel
    attemptCount,  \* handler calls so far
    lastAttempt,   \* the latest handler call: channel, outcome, delay before it
    consumeLog,    \* the calls of consume.AsyncConsume, in order
    lastConsume,   \* code and channel of the latest of them
    monitorCount,  \* calls of monitor.AddRequest so far
    lastMonitor,   \* the latest of them
    lastNotify,    \* the notification of the latest attempt, "none" without one
    responses,     \* what was written to the client (c.JSON, AbortLogWithMessage)
    selectorCalls, \* calls of getRandomChannel made for the request
    slept,         \* getRetryChannel slept (the 429-delay) in this iteration
    forgiven,      \* retry attempts that ended no-permission while not exhausted
    noPermissionIDs, \* ids of the channels an attempt on which ended no-permission
    triedIDs,      \* ids of the channels an attempt was made on
    only429,       \* every attempt so far ended with status 429
    exit,          \* how the request left relay or retryLoop
    sel,           \* a selector call on its own: the arguments of getRandomChannel
    selResult,     \* and what it returned
    fb,            \* an initial selection on its own: what getChannelWithFallback reads
    fbResult       \* and what it returned

vars == <<pc, ctxCancelled, initial, admission, balanceFailed, cfgRetryTimes, meta, result,
          state, i, newChannel, attemptCount, lastAttempt, consumeLog, lastConsume,
          monitorCount, lastMonitor, lastNotify, responses, selectorCalls, slept, forgiven,
          noPermissionIDs, triedIDs, only429,
          exit, sel, selResult, fb, fbResult>>

reqVars == <<pc, ctxCancelled, initial, admission, balanceFailed, cfgRetryTimes, meta, result,
             state, i, newChannel, attemptCount, lastAttempt, consumeLog, lastConsume,
             monitorCount, lastMonitor, lastNotify, responses, selectorCalls, slept, forgiven,
             noPermissionIDs, triedIDs, only429,
             exit>>

selVars == <<sel, selResult, fb, fbResult>>

\* The ascending sequence of the elements of a set of integers.
RECURSIVE SeqOfSet(_)
SeqOfSet(S) ==
    IF S = {} THEN <<>>
    ELSE LET m == CHOOSE x \in S : \A y \in S : x <= y
         IN  <<m>> \o SeqOfSet(S \ {m})

\* The channel a caller can designate: any channel of the store.
DesignatedChannels ==
    [id : ChannelIDs, status : {ChannelStatusEnabled, ChannelStatusDisabled},
     priority : {RequestPriority}]

\* The model caches a request can meet: each availability set of
\* EnabledModel2ChannelsBySet holds some of the store's enabled channels.
EnabledChannel(id) == [id |-> id, status |-> ChannelStatusEnabled, priority |-> RequestPriority]

ModelCaches ==
    {[set \in SetNames |-> [k \in 1..Len(SeqOfSet(m[set])) |-> EnabledChannel(SeqOfSet(m[set])[k])]] :
        m \in [SetNames -> SUBSET ChannelIDs]}

\* group.GetAvailableSets()
AvailableSets == {<<"a">>, <<"a", "b">>}

\* monitor.GetBannedChannelsWithModel
BannedLists == {SeqOfSet(S) : S \in SUBSET ChannelIDs}

\* monitor.GetModelChannelErrorRate: nil on error, else a rate per channel.
RequestErrorRates == {<<>>, [id \in ChannelIDs |-> 30 * id]}

\* What the handler can return: no error, or an error with a status code:
\* both client-fault codes, a no-permission code, the rate-limit code and
\* another upstream failure.
ErrorStatusCodes ==
    {StatusBadRequest, StatusRequestEntityTooLarge, StatusForbidden,
     StatusTooManyRequests, StatusInternalServerError}

HandlerOutcomes ==
    {[hasError |-> FALSE, statusCode |-> StatusOK]}
    \cup {[hasError |-> TRUE, statusCode |-> code] : code \in ErrorStatusCodes}

\* What monitor.AddRequest can answer, as <<beyondThreshold, banExecution>>,
\* where RelayHelper reads the answer: after a retriable failure.
MonitorAnswers(outcome) ==
    IF outcome.hasError /\ shouldRetry(outcome.statusCode)
    THEN BOOLEAN \X BOOLEAN
    ELSE {<<FALSE, FALSE>>}

\* The modes: relayController binds a price and a usage function to the
\* first two kinds, and none to any other mode.
Modes == {"ChatCompletions", "Embeddings", "Other"}

HasRequestUsage(mode) == mode \in {"ChatCompletions", "Embeddings"}
HasRequestPrice(mode) == mode \in {"ChatCompletions", "Embeddings"}

NoInitial ==
    [channel |-> NilChannel, designatedChannel |-> FALSE, ignoreChannelIDs |-> <<>>,
     errorRates |-> <<>>, migratedChannels |-> <<>>]


NoState ==
    [retryTimes |-> 0, lastHasPermissionChannel |-> NilChannel, ignoreChannelIDs |-> <<>>,
     errorRates |-> <<>>, exhausted |-> FALSE, meta |-> NilMeta, result |-> NilResult,
     migratedChannels |-> <<>>]

NoAttempt == [channel |-> NilChannel, hasError |-> FALSE, statusCode |-> 0, delayed |-> FALSE]
NoConsume == [code |-> 0, channel |-> NilChannel]
NoMonitor == [attempt |-> 0, channel |-> 0, failed |-> FALSE, noPermission |-> FALSE]

NoSelectorCall == [channels |-> <<>>, errorRates |-> <<>>, ignoreChannel |-> <<>>]
NoSelection == [done |-> FALSE, channel |-> NilChannel, err |-> ErrNil]

NoFallbackCall ==
    [mc |-> <<>>, availableSet |-> <<>>, errorRates |-> <<>>, ids |-> <<>>, r |-> 0, u |-> 0]
NoFallback ==
    [done |-> FALSE, channel |-> NilChannel, migratedChannels |-> <<>>, err |-> ErrNil,
     calls |-> 0]

InitRequest ==
    /\ pc = "start"
    /\ ctxCancelled = FALSE
    /\ initial = NoInitial
    /\ admission = "pending"
    /\ cfgRetryTimes = 0
    /\ meta = NilMeta
    /\ result = NilResult
    /\ state = NoState
    /\ i = 0
    /\ newChannel = NilChannel
    /\ attemptCount = 0
    /\ lastAttempt = NoAttempt
    /\ consumeLog = <<>>
    /\ lastConsume = NoConsume
    /\ monitorCount = 0
    /\ lastMonitor = NoMonitor
    /\ lastNotify = "none"
    /\ responses = <<>>
    /\ selectorCalls = 0
    /\ slept = FALSE
    /\ forgiven = 0
    /\ noPermissionIDs = {}
    /\ triedIDs = {}
    /\ only429 = TRUE
    /\ exit = "running"
    /\ balanceFailed = FALSE

Init ==
    /\ InitRequest
    /\ sel = NoSelectorCall
    /\ selResult = NoSelection
    /\ fb = NoFallbackCall
    /\ fbResult = NoFallback

(* --------------------------- attempt executor -------------------------- *)

\* middleware.GroupBalanceNotEnough
GroupBalanceNotEnough == "group_balance_not_enough"

\* RelayHelper: the handler returned outcome for meta m; monitor.AddRequest
\* (when called) answered beyondThreshold and banExecution.  The result, the
\* retry flag, the AddRequest call and the notification.
RelayHelper(m, outcome, beyondThreshold, banExecution) ==
    LET res == [isNil |-> FALSE, hasError |-> outcome.hasError,
                statusCode |-> outcome.statusCode, attempt |-> m.attempt]
        retry == shouldRetry(outcome.statusCode)
        hasPermission == channelHasPermission(outcome.statusCode)
    IN  IF ~outcome.hasError
        THEN [result |-> res, retry |-> FALSE, monitored |-> TRUE, failed |-> FALSE,
              noPermission |-> FALSE, notify |-> "none"]
        ELSE IF retry
        THEN [result |-> res, retry |-> TRUE, monitored |-> TRUE, failed |-> TRUE,
              noPermission |-> ~hasPermission,
              notify |-> IF banExecution THEN "autoBanned"
                         ELSE IF beyondThreshold THEN "beyondThreshold"
                         ELSE IF ~hasPermission THEN "channelHasPermission"
                         ELSE "none"]
        ELSE [result |-> res, retry |-> FALSE, monitored |-> FALSE, failed |-> FALSE,
              noPermission |-> FALSE, notify |-> "none"]

\* What a call of RelayHelper leaves with the handler, the monitor and the
\* notifier.
RelayHelperCalls(m, h, delayed) ==
    /\ attemptCount' = attemptCount + 1
    /\ lastAttempt' = [channel |-> m.channel, hasError |-> h.result.hasError,
                       statusCode |-> h.result.statusCode, delayed |-> delayed]
    /\ monitorCount' = IF h.monitored THEN monitorCount + 1 ELSE monitorCount
    /\ lastMonitor' = IF h.monitored
                      THEN [attempt |-> m.attempt, channel |-> m.channel.id,
                            failed |-> h.failed, noPermission |-> h.noPermission]
                      ELSE lastMonitor
    /\ lastNotify' = h.notify
    /\ noPermissionIDs' = IF h.result.hasError /\ ~channelHasPermission(h.result.statusCode)
                          THEN noPermissionIDs \cup {m.channel.id}
                          ELSE noPermissionIDs
    /\ triedIDs' = triedIDs \cup {m.channel.id}
    /\ only429' = (only429 /\ h.result.hasError /\ shouldDelay(h.result.statusCode))

\* A recordResult that passes attempt index 0 whatever it is given.
recordResultWithoutIndex(m, res, retryTimes, downstreamResult) ==
    /\ consumeLog' = Append(consumeLog,
                            [attemptIndex |-> 0, downstreamResult |-> downstreamResult,
                             metaAttempt |-> m.attempt, resultAttempt |-> res.attempt])
    /\ lastConsume' = [code |-> IF res.hasError THEN res.statusCode ELSE StatusOK,
                       channel |-> m.channel]

\* A recordResult that marks every record as the downstream result.
recordResultAlwaysDownstream(m, res, retryTimes, downstreamResult) ==
    /\ consumeLog' = Append(consumeLog,
                            [attemptIndex |-> retryTimes, downstreamResult |-> TRUE,
                             metaAttempt |-> m.attempt, resultAttempt |-> res.attempt])
    /\ lastConsume' = [code |-> IF res.hasError THEN res.statusCode ELSE StatusOK,
                       channel |-> m.channel]

\* recordResult: one call of consume.AsyncConsume.
recordResult(m, res, retryTimes, downstreamResult) ==
    /\ consumeLog' = Append(consumeLog,
                            [attemptIndex |-> retryTimes, downstreamResult |-> downstreamResult,
                             metaAttempt |-> m.attempt, resultAttempt |-> res.attempt])
    /\ lastConsume' = [code |-> IF res.hasError THEN res.statusCode ELSE StatusOK,
                       channel |-> m.channel]

\* A handleRelayResult that does not look at the request context.
handleRelayResultIgnoringContext(res, retry, retryTimes, cancelled) ==
    IF ~res.hasError THEN [done |-> TRUE, respond |-> FALSE]
    ELSE IF ~retry \/ retryTimes = 0 THEN [done |-> TRUE, respond |-> TRUE]
    ELSE [done |-> FALSE, respond |-> FALSE]

\* A handleRelayResult that never writes the error to the client.
handleRelayResultSilent(res, retry, retryTimes, cancelled) ==
    IF ~res.hasError THEN [done |-> TRUE, respond |-> FALSE]
    ELSE IF ~retry \/ retryTimes = 0 \/ cancelled THEN [done |-> TRUE, respond |-> FALSE]
    ELSE [done |-> FALSE, respond |-> FALSE]

\* handleRelayResult: whether the first attempt ends the request, and
\* whether its error is written to the client.
handleRelayResult(res, retry, retryTimes, cancelled) ==
    IF ~res.hasError THEN [done |-> TRUE, respond |-> FALSE]
    ELSE IF ~retry \/ retryTimes = 0 \/ cancelled THEN [done |-> TRUE, respond |-> TRUE]
    ELSE [done |-> FALSE, respond |-> FALSE]

\* An initRetryState that starts every request as not exhausted.
initRetryStateNeverExhausted(retryTimes, channel, m, res) ==
    LET noPermission == ~channelHasPermission(res.statusCode)
    IN  [retryTimes |-> retryTimes,
         ignoreChannelIDs |-> IF noPermission
                              THEN Append(channel.ignoreChannelIDs, channel.channel.id)
                              ELSE channel.ignoreChannelIDs,
         errorRates |-> channel.errorRates,
         meta |-> m,
         result |-> res,
         migratedChannels |-> channel.migratedChannels,
         exhausted |-> FALSE,
         lastHasPermissionChannel |-> IF noPermission THEN NilChannel ELSE channel.channel]

\* An initRetryState that does not ignore the channel of a no-permission
\* first attempt.
initRetryStateKeepingFirst(retryTimes, channel, m, res) ==
    LET noPermission == ~channelHasPermission(res.statusCode)
    IN  [retryTimes |-> retryTimes,
         ignoreChannelIDs |-> channel.ignoreChannelIDs,
         errorRates |-> channel.errorRates,
         meta |-> m,
         result |-> res,
         migratedChannels |-> channel.migratedChannels,
         exhausted |-> channel.designatedChannel,
         lastHasPermissionChannel |-> IF noPermission THEN NilChannel ELSE channel.channel]

\* An initRetryState that adds one to retryTimes after a no-permission first
\* attempt.
initRetryStateForgivingFirst(retryTimes, channel, m, res) ==
    LET noPermission == ~channelHasPermission(res.statusCode)
    IN  [retryTimes |-> IF noPermission THEN retryTimes + 1 ELSE retryTimes,
         ignoreChannelIDs |-> IF noPermission
                              THEN Append(channel.ignoreChannelIDs, channel.channel.id)
                              ELSE channel.ignoreChannelIDs,
         errorRates |-> channel.errorRates,
         meta |-> m,
         result |-> res,
         migratedChannels |-> channel.migratedChannels,
         exhausted |-> channel.designatedChannel,
         lastHasPermissionChannel |-> IF noPermission THEN NilChannel ELSE channel.channel]

\* An initRetryState that does not keep the first attempt's result.
initRetryStateLosingResult(retryTimes, channel, m, res) ==
    LET noPermission == ~channelHasPermission(res.statusCode)
    IN  [retryTimes |-> retryTimes,
         ignoreChannelIDs |-> IF noPermission
                              THEN Append(channel.ignoreChannelIDs, channel.channel.id)
                              ELSE channel.ignoreChannelIDs,
         errorRates |-> channel.errorRates,
         meta |-> m,
         result |-> NilResult,
         migratedChannels |-> channel.migratedChannels,
         exhausted |-> channel.designatedChannel,
         lastHasPermissionChannel |-> IF noPermission THEN NilChannel ELSE channel.channel]

\* An initRetryState that does not carry the error rates read at entry.
initRetryStateDroppingRates(retryTimes, channel, m, res) ==
    LET noPermission == ~channelHasPermission(res.statusCode)
    IN  [retryTimes |-> retryTimes,
         ignoreChannelIDs |-> IF noPermission
                              THEN Append(channel.ignoreChannelIDs, channel.channel.id)
                              ELSE channel.ignoreChannelIDs,
         errorRates |-> <<>>,
         meta |-> m,
         result |-> res,
         migratedChannels |-> channel.migratedChannels,
         exhausted |-> channel.designatedChannel,
         lastHasPermissionChannel |-> IF noPermission THEN NilChannel ELSE channel.channel]

\* initRetryState
initRetryState(retryTimes, channel, m, res) ==
    LET noPermission == ~channelHasPermission(res.statusCode)
    IN  [retryTimes |-> retryTimes,
         ignoreChannelIDs |-> IF noPermission
                              THEN Append(channel.ignoreChannelIDs, channel.channel.id)
                              ELSE channel.ignoreChannelIDs,
         errorRates |-> channel.errorRates,
         meta |-> m,
         result |-> res,
         migratedChannels |-> channel.migratedChannels,
         exhausted |-> channel.designatedChannel,
         lastHasPermissionChannel |-> IF noPermission THEN NilChannel ELSE channel.channel]

(* --------------------------- retry coordinator ------------------------- *)

\* A getRetryChannel that clears the exhausted flag when it reuses
\* lastHasPermissionChannel.
getRetryChannelClearingExhausted(st) ==
    IF st.exhausted
    THEN IF st.lastHasPermissionChannel = NilChannel
         THEN {[channel |-> NilChannel, err |-> ErrChannelsExhausted, exhausted |-> TRUE,
                slept |-> FALSE, selected |-> FALSE]}
         ELSE {[channel |-> st.lastHasPermissionChannel, err |-> ErrNil, exhausted |-> FALSE,
                slept |-> shouldDelay(st.result.statusCode), selected |-> FALSE]}
    ELSE {IF res.err # ErrNil
          THEN IF res.err # ErrChannelsExhausted \/ st.lastHasPermissionChannel = NilChannel
               THEN [channel |-> NilChannel, err |-> res.err, exhausted |-> FALSE,
                     slept |-> FALSE, selected |-> TRUE]
               ELSE [channel |-> st.lastHasPermissionChannel, err |-> ErrNil,
                     exhausted |-> TRUE, slept |-> shouldDelay(st.result.statusCode),
                     selected |-> TRUE]
          ELSE [channel |-> res.channel, err |-> ErrNil, exhausted |-> FALSE,
                slept |-> FALSE, selected |-> TRUE] :
          res \in getRandomChannelResults(st.migratedChannels, st.errorRates,
                                          st.ignoreChannelIDs)}

\* A getRetryChannel that asks the random selector even when exhausted.
getRetryChannelSelectingAgain(st) ==
    {IF res.err # ErrNil
     THEN IF res.err # ErrChannelsExhausted \/ st.lastHasPermissionChannel = NilChannel
          THEN [channel |-> NilChannel, err |-> res.err, exhausted |-> st.exhausted,
                slept |-> FALSE, selected |-> TRUE]
          ELSE [channel |-> st.lastHasPermissionChannel, err |-> ErrNil,
                exhausted |-> TRUE, slept |-> shouldDelay(st.result.statusCode),
                selected |-> TRUE]
     ELSE [channel |-> res.channel, err |-> ErrNil, exhausted |-> st.exhausted,
           slept |-> FALSE, selected |-> TRUE] :
     res \in getRandomChannelResults(st.migratedChannels, st.errorRates,
                                     st.ignoreChannelIDs)}

\* getRetryChannel: every (channel, err) it can return for the state st, with
\* the exhausted flag it leaves, whether it slept and whether it called
\* getRandomChannel.
getRetryChannel(st) ==
    IF st.exhausted
    THEN IF st.lastHasPermissionChannel = NilChannel
         THEN {[channel |-> NilChannel, err |-> ErrChannelsExhausted, exhausted |-> TRUE,
                slept |-> FALSE, selected |-> FALSE]}
         ELSE {[channel |-> st.lastHasPermissionChannel, err |-> ErrNil, exhausted |-> TRUE,
                slept |-> shouldDelay(st.result.statusCode), selected |-> FALSE]}
    ELSE {IF res.err # ErrNil
          THEN IF res.err # ErrChannelsExhausted \/ st.lastHasPermissionChannel = NilChannel
               THEN [channel |-> NilChannel, err |-> res.err, exhausted |-> FALSE,
                     slept |-> FALSE, selected |-> TRUE]
               ELSE [channel |-> st.lastHasPermissionChannel, err |-> ErrNil,
                     exhausted |-> TRUE, slept |-> shouldDelay(st.result.statusCode),
                     selected |-> TRUE]
          ELSE [channel |-> res.channel, err |-> ErrNil, exhausted |-> FALSE,
                slept |-> FALSE, selected |-> TRUE] :
          res \in getRandomChannelResults(st.migratedChannels, st.errorRates,
                                          st.ignoreChannelIDs)}

\* A handleRetryResult that forgives every failed retry, not only the
\* no-permission ones.
handleRetryResultForgivingAll(cancelled, retry, ch, st) ==
    IF cancelled THEN [done |-> TRUE, state |-> st]
    ELSE IF ~retry \/ ~st.result.hasError THEN [done |-> TRUE, state |-> st]
    ELSE [done |-> FALSE,
          state |-> [st EXCEPT !.lastHasPermissionChannel = ch, !.retryTimes = @ + 1]]

\* A handleRetryResult that keeps only the newest ignored id.
handleRetryResultDroppingIgnored(cancelled, retry, ch, st) ==
    IF cancelled THEN [done |-> TRUE, state |-> st]
    ELSE IF ~retry \/ ~st.result.hasError THEN [done |-> TRUE, state |-> st]
    ELSE IF st.exhausted
    THEN IF ~channelHasPermission(st.result.statusCode)
         THEN [done |-> TRUE, state |-> st]
         ELSE [done |-> FALSE, state |-> st]
    ELSE IF ~channelHasPermission(st.result.statusCode)
    THEN [done |-> FALSE,
          state |-> [st EXCEPT !.ignoreChannelIDs = <<ch.id>>, !.retryTimes = @ + 1]]
    ELSE [done |-> FALSE, state |-> [st EXCEPT !.lastHasPermissionChannel = ch]]

\* A handleRetryResult that ignores the channel of every failed retry.
handleRetryResultIgnoringAll(cancelled, retry, ch, st) ==
    IF cancelled THEN [done |-> TRUE, state |-> st]
    ELSE IF ~retry \/ ~st.result.hasError THEN [done |-> TRUE, state |-> st]
    ELSE IF st.exhausted
    THEN IF ~channelHasPermission(st.result.statusCode)
         THEN [done |-> TRUE, state |-> st]
         ELSE [done |-> FALSE, state |-> st]
    ELSE IF ~channelHasPermission(st.result.statusCode)
    THEN [done |-> FALSE,
          state |-> [st EXCEPT !.ignoreChannelIDs = Append(@, ch.id),
                               !.retryTimes = @ + 1]]
    ELSE [done |-> FALSE,
          state |-> [st EXCEPT !.ignoreChannelIDs = Append(@, ch.id),
                               !.lastHasPermissionChannel = ch]]

\* A handleRetryResult that does not look at the request context.
handleRetryResultIgnoringContext(cancelled, retry, ch, st) ==
    IF ~retry \/ ~st.result.hasError THEN [done |-> TRUE, state |-> st]
    ELSE IF st.exhausted
    THEN IF ~channelHasPermission(st.result.statusCode)
         THEN [done |-> TRUE, state |-> st]
         ELSE [done |-> FALSE, state |-> st]
    ELSE IF ~channelHasPermission(st.result.statusCode)
    THEN [done |-> FALSE,
          state |-> [st EXCEPT !.ignoreChannelIDs = Append(@, ch.id),
                               !.retryTimes = @ + 1]]
    ELSE [done |-> FALSE, state |-> [st EXCEPT !.lastHasPermissionChannel = ch]]

\* A handleRetryResult that extends the budget after every failed retry on
\* a channel of the random selector.
handleRetryResultExtendingAlways(cancelled, retry, ch, st) ==
    IF cancelled THEN [done |-> TRUE, state |-> st]
    ELSE IF ~retry \/ ~st.result.hasError THEN [done |-> TRUE, state |-> st]
    ELSE IF st.exhausted
    THEN IF ~channelHasPermission(st.result.statusCode)
         THEN [done |-> TRUE, state |-> st]
         ELSE [done |-> FALSE, state |-> st]
    ELSE IF ~channelHasPermission(st.result.statusCode)
    THEN [done |-> FALSE,
          state |-> [st EXCEPT !.ignoreChannelIDs = Append(@, ch.id),
                               !.retryTimes = @ + 1]]
    ELSE [done |-> FALSE, state |-> [st EXCEPT !.lastHasPermissionChannel = ch,
                                               !.retryTimes = @ + 1]]

\* handleRetryResult: whether the retry attempt on channel ch ends the
\* request, and the state it leaves.
handleRetryResult(cancelled, retry, ch, st) ==
    IF cancelled THEN [done |-> TRUE, state |-> st]
    ELSE IF ~retry \/ ~st.result.hasError THEN [done |-> TRUE, state |-> st]
    ELSE IF st.exhausted
    THEN IF ~channelHasPermission(st.result.statusCode)
         THEN [done |-> TRUE, state |-> st]
         ELSE [done |-> FALSE, state |-> st]
    ELSE IF ~channelHasPermission(st.result.statusCode)
    THEN [done |-> FALSE,
          state |-> [st EXCEPT !.ignoreChannelIDs = Append(@, ch.id),
                               !.retryTimes = @ + 1]]
    ELSE [done |-> FALSE, state |-> [st EXCEPT !.lastHasPermissionChannel = ch]]

(* -------------------------------- actions ------------------------------ *)

Respond(status, kind) == responses' = Append(responses, [status |-> status, kind |-> kind])

\* A candidate list in ascending order of channel id.
AscendingIDs(chs) == \A k \in 1..(Len(chs) - 1) : chs[k].id < chs[k + 1].id

\* getInitialChannel and relay's check of it: a designated channel, or a
\* random one among the group's channels; 503 when there is none.  Of the
\* orders in which GetRandomChannel can build the candidate list, a request
\* follows the ascending one: what getRandomChannel can return does not
\* depend on the order of its list (OrderIrrelevant).
GetInitialChannel ==
    /\ pc = "start"
    /\ \/ \E channel \in DesignatedChannels :
            /\ initial' = [channel |-> channel, designatedChannel |-> TRUE,
                           ignoreChannelIDs |-> <<>>, errorRates |-> <<>>,
                           migratedChannels |-> <<>>]
            /\ pc' = "price"
            /\ UNCHANGED <<responses, selectorCalls, exit>>
       \/ \E mc \in ModelCaches, availableSet \in AvailableSets,
             ids \in BannedLists, errorRates \in RequestErrorRates :
              \E res \in getChannelWithFallback(mc, availableSet, errorRates, ids) :
                /\ AscendingIDs(res.migratedChannels)
                /\ selectorCalls' = res.calls
                /\ IF res.err # ErrNil \/ res.channel = NilChannel
                   THEN /\ Respond(StatusServiceUnavailable, "saturated")
                        /\ pc' = "done"
                        /\ exit' = "no channel"
                        /\ UNCHANGED initial
                   ELSE /\ initial' = [channel |-> res.channel, designatedChannel |-> FALSE,
                                       ignoreChannelIDs |-> ids, errorRates |-> errorRates,
                                       migratedChannels |-> res.migratedChannels]
                        /\ pc' = "price"
                        /\ UNCHANGED <<responses, exit>>
    /\ UNCHANGED <<ctxCancelled, admission, balanceFailed, cfgRetryTimes, meta, result, state,
                   i, newChannel, attemptCount, lastAttempt, consumeLog, lastConsume,
                   monitorCount, lastMonitor, lastNotify, slept, forgiven,
                   noPermissionIDs, triedIDs, only429>>
    /\ UNCHANGED selVars

\* An admission gate that does not look at the balance.
admissionGateWithoutBalance(billingEnabled, hasPrice, hasUsage, priceErr, usageErr, balanceEnough) ==
    IF billingEnabled /\ hasPrice /\ priceErr THEN "price failed"
    ELSE IF billingEnabled /\ hasUsage /\ usageErr THEN "usage failed"
    ELSE "passed"

\* relay, from the price to the balance check: how the admission gate ends
\* for what it reads.  The price function is consulted when billing is
\* enabled and the mode has one, then the usage function likewise, then the
\* group's balance.
admissionGate(billingEnabled, hasPrice, hasUsage, priceErr, usageErr, balanceEnough) ==
    IF billingEnabled /\ hasPrice /\ priceErr THEN "price failed"
    ELSE IF billingEnabled /\ hasUsage /\ usageErr THEN "usage failed"
    ELSE IF billingEnabled /\ hasUsage /\ ~balanceEnough THEN "balance not enough"
    ELSE "passed"

\* relay, from the price to the balance check.
Admission ==
    /\ pc = "price"
    /\ \E billingEnabled \in BOOLEAN, mode \in Modes,
          priceErr \in BOOLEAN, usageErr \in BOOLEAN, balanceEnough \in BOOLEAN :
         LET gate == admissionGate(billingEnabled, HasRequestPrice(mode), HasRequestUsage(mode),
                                   priceErr, usageErr, balanceEnough)
         IN  /\ admission' = gate
             /\ balanceFailed' = (/\ billingEnabled
                                  /\ HasRequestUsage(mode)
                                  /\ ~(HasRequestPrice(mode) /\ priceErr)
                                  /\ ~usageErr
                                  /\ ~balanceEnough)
             /\ meta' = IF gate = "price failed" THEN meta
                        ELSE [channel |-> initial.channel, attempt |-> 1]
             /\ IF gate = "passed"
                THEN /\ pc' = "first"
                     /\ UNCHANGED <<responses, exit>>
                ELSE /\ pc' = "done"
                     /\ exit' = "not admitted"
                     /\ IF gate = "balance not enough"
                        THEN Respond(StatusForbidden, GroupBalanceNotEnough)
                        ELSE Respond(StatusInternalServerError, "get request " \o gate)
    /\ UNCHANGED <<ctxCancelled, initial, cfgRetryTimes, result, state, i, newChannel,
                   attemptCount, lastAttempt, consumeLog, lastConsume, monitorCount,
                   lastMonitor, lastNotify, selectorCalls, slept, forgiven,
                   noPermissionIDs, triedIDs, only429>>
    /\ UNCHANGED selVars

\* relay, from the first attempt to the retry state.
FirstAttempt ==
    /\ pc = "first"
    /\ \E outcome \in HandlerOutcomes, retryTimes \in 0..MaxRetryTimes :
       \E answer \in MonitorAnswers(outcome) :
         LET h == RelayHelper(meta, outcome, answer[1], answer[2])
             hr == handleRelayResult(h.result, h.retry, retryTimes, ctxCancelled)
         IN  /\ RelayHelperCalls(meta, h, FALSE)
             /\ result' = h.result
             /\ cfgRetryTimes' = retryTimes
             /\ IF hr.done
                THEN /\ IF hr.respond
                        THEN Respond(h.result.statusCode, "upstream")
                        ELSE UNCHANGED responses
                     /\ recordResult(meta, h.result, 0, TRUE)
                     /\ pc' = "done"
                     /\ exit' = "fast"
                     /\ UNCHANGED state
                ELSE /\ state' = initRetryState(retryTimes, initial, meta, h.result)
                     /\ pc' = "retry"
                     /\ UNCHANGED <<responses, consumeLog, lastConsume, exit>>
    /\ UNCHANGED <<ctxCancelled, initial, admission, balanceFailed, meta, i, newChannel,
                   selectorCalls, slept, forgiven>>
    /\ UNCHANGED selVars

\* A retryLoop that writes nothing to the client after the loop.
EmitFinalSilent(st) == UNCHANGED responses

\* retryLoop, after the loop: the last result's error goes to the client.
EmitFinal(st) ==
    IF st.result.hasError
    THEN Respond(st.result.statusCode, "upstream")
    ELSE UNCHANGED responses

\* retryLoop, from the top of an iteration to the binding of the new meta:
\* getRetryChannel, prepareRetry, and the record of the previous attempt.
PickRetryChannel ==
    /\ pc = "retry"
    /\ \E pick \in getRetryChannel(state), bodyErr \in BOOLEAN :
         LET st == [state EXCEPT !.exhausted = pick.exhausted]
             failed == pick.err # ErrNil \/ bodyErr
         IN  /\ selectorCalls' = IF pick.selected THEN selectorCalls + 1 ELSE selectorCalls
             /\ slept' = pick.slept
             /\ IF failed
                THEN /\ IF st.meta # NilMeta /\ ~st.result.isNil
                        THEN recordResult(st.meta, st.result, i, TRUE)
                        ELSE UNCHANGED <<consumeLog, lastConsume>>
                     /\ state' = st
                     /\ EmitFinal(st)
                     /\ pc' = "done"
                     /\ exit' = IF pick.err # ErrNil THEN "selector error" ELSE "prepare error"
                     /\ UNCHANGED newChannel
                ELSE /\ IF st.meta # NilMeta /\ ~st.result.isNil
                        THEN /\ recordResult(st.meta, st.result, i, FALSE)
                             /\ state' = [st EXCEPT !.meta = NilMeta, !.result = NilResult]
                        ELSE /\ UNCHANGED <<consumeLog, lastConsume>>
                             /\ state' = st
                     /\ newChannel' = pick.channel
                     /\ pc' = "attempt"
                     /\ UNCHANGED <<responses, exit>>
    /\ UNCHANGED <<ctxCancelled, initial, admission, balanceFailed, cfgRetryTimes, meta, result,
                   i, attemptCount, lastAttempt, monitorCount, lastMonitor, lastNotify,
                   forgiven, noPermissionIDs, triedIDs, only429>>
    /\ UNCHANGED selVars

\* retryLoop, from the new meta to the end of the iteration: the attempt,
\* handleRetryResult and, for a last attempt, its record and the end of
\* the function.
RetryAttempt ==
    /\ pc = "attempt"
    /\ \E outcome \in HandlerOutcomes :
       \E answer \in MonitorAnswers(outcome) :
         LET m == [channel |-> newChannel, attempt |-> attemptCount + 1]
             h == RelayHelper(m, outcome, answer[1], answer[2])
             hr == handleRetryResult(ctxCancelled, h.retry, newChannel,
                                     [state EXCEPT !.meta = m, !.result = h.result])
         IN  /\ RelayHelperCalls(m, h, slept)
             /\ forgiven' = IF /\ h.result.hasError
                                /\ ~channelHasPermission(h.result.statusCode)
                                /\ ~state.exhausted
                             THEN forgiven + 1 ELSE forgiven
             /\ state' = hr.state
             /\ IF hr.done \/ i = hr.state.retryTimes - 1
                THEN /\ recordResult(hr.state.meta, hr.state.result, i + 1, TRUE)
                     /\ EmitFinal(hr.state)
                     /\ pc' = "done"
                     /\ exit' = IF hr.done THEN "done" ELSE "budget"
                     /\ UNCHANGED i
                ELSE /\ i' = i + 1
                     /\ pc' = "retry"
                     /\ UNCHANGED <<consumeLog, lastConsume, responses, exit>>
    /\ UNCHANGED <<ctxCancelled, initial, admission, balanceFailed, cfgRetryTimes, meta, result,
                   newChannel, selectorCalls, slept>>
    /\ UNCHANGED selVars

\* The client goes away: the request context is cancelled.  The core reads
\* the context only after a handler call (handleRelayResult,
\* handleRetryResult), so the cancellation is placed where one is pending.
CancelContext ==
    /\ pc \in {"first", "attempt"}
    /\ ~ctxCancelled
    /\ ctxCancelled' = TRUE
    /\ UNCHANGED <<pc, initial, admission, balanceFailed, cfgRetryTimes, meta, result, state,
                   i, newChannel, attemptCount, lastAttempt, consumeLog, lastConsume,
                   monitorCount, lastMonitor, lastNotify, responses, selectorCalls, slept,
                   forgiven, exit, noPermissionIDs, triedIDs, only429>>
    /\ UNCHANGED selVars

Next ==
    \/ GetInitialChannel
    \/ Admission
    \/ FirstAttempt
    \/ PickRetryChannel
    \/ RetryAttempt
    \/ CancelContext

Spec == Init /\ [][Next]_vars

\* A request whose steps are taken: every handler call and every call the
\* core makes returns.  The client is free never to cancel.
Progress == GetInitialChannel \/ Admission \/ FirstAttempt \/ PickRetryChannel \/ RetryAttempt

FairSpec == Init /\ [][Next]_vars /\ WF_vars(Progress)

(* ----------------------- the selector on its own ----------------------- *)

\* The candidate lists getRandomChannel can be given: channels of distinct
\* ids, in any order, of any status and priority.
CandidateLists ==
    UNION {UNION {{[k \in 1..Len(p) |-> [id |-> p[k], status |-> f[p[k]].status,
                                         priority |-> f[p[k]].priority]] :
                     f \in [S -> [status : {ChannelStatusEnabled, ChannelStatusDisabled},
                                  priority : 0..MaxPriority]]} :
                  p \in Perms(S)} :
           S \in SUBSET ChannelIDs}

\* The error-rate maps it can be given, in hundredths: the nil map, every
\* channel at 0.30, every channel above 1, and one channel above 1 beside
\* channels never observed.
SelectorErrorRates ==
    {<<>>, [id \in ChannelIDs |-> 30], [id \in ChannelIDs |-> 150],
     [id \in ChannelIDs |-> IF id = 1 THEN 150 ELSE 0]}

SelectorCalls ==
    [channels : CandidateLists,
     errorRates : SelectorErrorRates,
     ignoreChannel : BannedLists]

InitSelect ==
    /\ InitRequest
    /\ sel \in SelectorCalls
    /\ selResult = NoSelection
    /\ fb = NoFallbackCall
    /\ fbResult = NoFallback

\* One call of getRandomChannel on the drawn arguments.
ApplyGetRandomChannel ==
    /\ ~selResult.done
    /\ \E d \in Draws(sel.channels, sel.errorRates, sel.ignoreChannel) :
         LET res == getRandomChannel(sel.channels, sel.errorRates, sel.ignoreChannel,
                                     d[1], d[2])
         IN  selResult' = [done |-> TRUE, channel |-> res.channel, err |-> res.err]
    /\ UNCHANGED <<sel, fb, fbResult, reqVars>>

NextSelect == ApplyGetRandomChannel

SpecSelect == InitSelect /\ [][NextSelect]_vars

(* ------------------ the selector on large priorities ------------------ *)

\* Priorities at the ends of the positive int32 range.
WidePriorities == {1, MaxInt32 - 1, MaxInt32}

WideCandidateLists ==
    UNION {UNION {{[k \in 1..Len(p) |-> [id |-> p[k], status |-> f[p[k]].status,
                                         priority |-> f[p[k]].priority]] :
                     f \in [S -> [status : {ChannelStatusEnabled, ChannelStatusDisabled},
                                  priority : WidePriorities]]} :
                  p \in Perms(S)} :
           S \in SUBSET ChannelIDs}

\* Error rates of 1 and above 1 for every channel: the weight of a channel
\* is its priority.
WideErrorRates == {[id \in ChannelIDs |-> 100], [id \in ChannelIDs |-> 150]}

WideCalls ==
    [channels : WideCandidateLists,
     errorRates : WideErrorRates,
     ignoreChannel : BannedLists]

\* Random numbers getRandomChannel can draw on these inputs, as pairs
\* <<r, u>>: of the r of [0, totalWeight), both ends and the two values
\* around the first weight.
WideDraws(chs, errorRates, ignoreChannel) ==
    LET filtered == filterChannels(chs, ignoreChannel)
        n == Len(filtered)
        ws == cachedPrioritys(filtered, errorRates)
        W == totalWeight(filtered, errorRates)
    IN  IF Len(chs) = 0 \/ n < 2 \/ W < 0 THEN {<<0, 0>>}
        ELSE IF W = 0 THEN {<<0, u>> : u \in 0..(n - 1)}
        ELSE UNION {IF Walk(ws, r, 1) # 0 THEN {<<r, 0>>}
                    ELSE {<<r, u>> : u \in 0..(n - 1)} :
                    r \in {x \in {0, W - 1, ws[1] - 1, ws[1]} : 0 <= x /\ x < W}}

InitWide ==
    /\ InitRequest
    /\ sel \in WideCalls
    /\ selResult = NoSelection
    /\ fb = NoFallbackCall
    /\ fbResult = NoFallback

\* One call of getRandomChannel on the drawn arguments.
ApplyGetRandomChannelWide ==
    /\ ~selResult.done
    /\ \E d \in WideDraws(sel.channels, sel.errorRates, sel.ignoreChannel) :
         LET res == getRandomChannel(sel.channels, sel.errorRates, sel.ignoreChannel,
                                     d[1], d[2])
         IN  selResult' = [done |-> TRUE, channel |-> res.channel, err |-> res.err]
    /\ UNCHANGED <<sel, fb, fbResult, reqVars>>

NextWide == ApplyGetRandomChannelWide

SpecWide == InitWide /\ [][NextWide]_vars

(* ------------------- the initial selection on its own ----------------- *)

\* The largest random number drawn.
MaxDraw == 3

\* The model caches getChannelWithFallback can read: a channel of the store
\* is Enabled or Disabled, and each availability set lists some of them.
FallbackModelCaches ==
    UNION {{[set \in SetNames |->
                [k \in 1..Len(SeqOfSet(m[set])) |->
                    [id |-> SeqOfSet(m[set])[k], status |-> f[SeqOfSet(m[set])[k]],
                     priority |-> RequestPriority]]] :
              m \in [SetNames -> SUBSET ChannelIDs]} :
           f \in [ChannelIDs -> {ChannelStatusEnabled, ChannelStatusDisabled}]}

\* The random source gives one number, read by whichever of rand.Int32N
\* and rand.IntN the call reaches.
FallbackCalls ==
    UNION {[mc : FallbackModelCaches, availableSet : AvailableSets,
            errorRates : RequestErrorRates, ids : BannedLists, r : {d}, u : {d}] :
           d \in 0..MaxDraw}

InitFallback ==
    /\ InitRequest
    /\ sel = NoSelectorCall
    /\ selResult = NoSelection
    /\ fb \in FallbackCalls
    /\ fbResult = NoFallback

\* One run of getChannelWithFallback: the map is iterated once, and once
\* more when the first selection ends with ErrChannelsExhausted.
ApplyGetChannelWithFallback ==
    /\ ~fbResult.done
    /\ \E p \in Perms(DOMAIN channelMap(fb.mc, fb.availableSet)) :
         LET first == GetRandomChannelRun(fb.mc, fb.availableSet, fb.errorRates, fb.ids,
                                          p, fb.r, fb.u)
             Ran(orders) ==
                 LET run == getChannelWithFallbackRun(fb.mc, fb.availableSet, fb.errorRates,
                                                      fb.ids, orders, fb.r, fb.u)
                 IN  [done |-> TRUE, channel |-> run.channel,
                      migratedChannels |-> run.migratedChannels, err |-> run.err,
                      calls |-> run.calls]
         IN  IF first.err = ErrChannelsExhausted
             THEN \E q \in Perms(DOMAIN channelMap(fb.mc, fb.availableSet)) :
                      fbResult' = Ran(<<p, q>>)
             ELSE fbResult' = Ran(<<p, p>>)
    /\ UNCHANGED <<sel, selResult, fb, reqVars>>

NextFallback == ApplyGetChannelWithFallback

SpecFallback == InitFallback /\ [][NextFallback]_vars

\* A run of getChannelWithFallbackRun gives what getChannelWithFallback can
\* return.
RunsAgree ==
    fbResult.done =>
        [channel |-> fbResult.channel, migratedChannels |-> fbResult.migratedChannels,
         err |-> fbResult.err, calls |-> fbResult.calls]
            \in getChannelWithFallback(fb.mc, fb.availableSet, fb.errorRates, fb.ids)

\* What getRandomChannel can return does not depend on the order of its
\* candidate list.
OrderIrrelevant ==
    \A p \in Perms(1..Len(sel.channels)) :
        getRandomChannelResults([k \in 1..Len(p) |-> sel.channels[p[k]]],
                                sel.errorRates, sel.ignoreChannel)
        = getRandomChannelResults(sel.channels, sel.errorRates, sel.ignoreChannel)

(* ------------------------------- properties ---------------------------- *)

NonRetriableStatusCodes == {StatusBadRequest, StatusRequestEntityTooLarge}
NoPermissionStatusCodes ==
    {StatusUnauthorized, StatusPaymentRequired, StatusForbidden, StatusNotFound}

\* The latest attempt ended with 400 or 413.
LastAttemptNonRetriable ==
    lastAttempt.hasError /\ lastAttempt.statusCode \in NonRetriableStatusCodes

\* The request is over: no step leaves pc = "done".
Terminal == [][pc # "done"]_vars

\* C1: the consumption records of a request carry the attempt indexes
\* 0, 1, ..., k in that order, each once; the record of index j carries the
\* meta and the result of attempt j (the (j+1)-th handler call); and a
\* request that has ended after k+1 attempts has made exactly k+1 records, the
\* last one with the channel and the code of the last attempt.
C1_RecordsInAttemptOrder ==
    /\ Len(consumeLog) <= attemptCount
    /\ \A j \in 1..Len(consumeLog) :
         /\ consumeLog[j].attemptIndex = j - 1
         /\ consumeLog[j].metaAttempt = j
         /\ consumeLog[j].resultAttempt = j
    /\ (pc = "done" /\ attemptCount >= 1) =>
         /\ Len(consumeLog) = attemptCount
         /\ lastConsume.channel = lastAttempt.channel
         /\ lastConsume.code = IF lastAttempt.hasError THEN lastAttempt.statusCode
                               ELSE StatusOK

C1_Witness ==
    /\ pc = "done"
    /\ attemptCount = 3
    /\ Len(consumeLog) = 3
    /\ consumeLog[3].attemptIndex = 2

\* C2: a record is marked downstreamResult exactly when it is the record of
\* the last attempt of a request that has ended; every request that ends
\* after at least one attempt has that record, whichever way it ended (fast
\* exit, done, budget, selector error, prepareRetry error).
C2_OneDownstreamResult ==
    /\ \A j \in 1..Len(consumeLog) :
         consumeLog[j].downstreamResult <=>
            (pc = "done" /\ j = attemptCount /\ consumeLog[j].metaAttempt = attemptCount)
    /\ (pc = "done" /\ attemptCount >= 1) =>
         /\ exit \in {"fast", "done", "budget", "selector error", "prepare error"}
         /\ Len(consumeLog) = attemptCount
         /\ consumeLog[attemptCount].downstreamResult

C2_Witness ==
    /\ pc = "done"
    /\ exit = "selector error"
    /\ attemptCount = 2
    /\ ~consumeLog[1].downstreamResult
    /\ consumeLog[2].downstreamResult

\* A candidate that filterChannels must keep.
Selectable(ch) ==
    /\ ch.status = ChannelStatusEnabled
    /\ \A k \in 1..Len(sel.ignoreChannel) : sel.ignoreChannel[k] # ch.id

C5_RetryBudget ==
    /\ [](attemptCount >= 1 => (attemptCount - 1) - forgiven <= cfgRetryTimes)
    /\ [][state'.retryTimes >= state.retryTimes]_vars

C5_Witness ==
    /\ cfgRetryTimes >= 1
    /\ forgiven >= 1
    /\ attemptCount - 1 = cfgRetryTimes + forgiven
    /\ state.retryTimes = cfgRetryTimes + forgiven

\* C6: when the first attempt succeeds, or retryTimes is 0, or the context
\* is cancelled, or the first attempt ends with 400 or 413, the step of the
\* first attempt ends the request with the one record (index 0,
\* downstreamResult) and without a retry state; nothing follows the end of a
\* request.
C6_FastExit ==
    /\ [][(/\ pc = "first"
           /\ attemptCount' = 1
           /\ \/ ~result'.hasError
              \/ cfgRetryTimes' = 0
              \/ ctxCancelled'
              \/ result'.statusCode \in NonRetriableStatusCodes)
          => (/\ pc' = "done"
              /\ exit' = "fast"
              /\ state' = NoState
              /\ selectorCalls' = selectorCalls
              /\ consumeLog' = <<[attemptIndex |-> 0, downstreamResult |-> TRUE,
                                  metaAttempt |-> 1, resultAttempt |-> 1]>>)]_vars
    /\ [](exit = "fast" => (pc = "done" /\ attemptCount = 1 /\ Len(consumeLog) = 1))
    /\ Terminal

C6_Witness ==
    /\ exit = "fast"
    /\ ctxCancelled
    /\ result.hasError
    /\ result.statusCode = StatusInternalServerError
    /\ cfgRetryTimes >= 1
    /\ Len(consumeLog) = 1

\* C7: an attempt that ends with 400 or 413 ends the request; that attempt
\* has no monitor.AddRequest call and no notification, and it has its one
\* consumption record; when it is the first attempt there is one consumption
\* record and no monitor record at all.
C7_NonRetriableIsTerminal ==
    LastAttemptNonRetriable =>
        /\ pc = "done"
        /\ lastMonitor.attempt # attemptCount
        /\ monitorCount = attemptCount - 1
        /\ lastNotify = "none"
        /\ Len(consumeLog) = attemptCount
        /\ consumeLog[attemptCount].resultAttempt = attemptCount
        /\ attemptCount = 1 => (monitorCount = 0 /\ Len(consumeLog) = 1)

C7_Witness ==
    /\ attemptCount >= 2
    /\ lastAttempt.hasError
    /\ lastAttempt.statusCode = StatusRequestEntityTooLarge
    /\ pc = "done"

\* What monitor.AddRequest is given for the latest attempt, were it called.
ExpectedMonitor ==
    [attempt |-> attemptCount, channel |-> lastAttempt.channel.id,
     failed |-> lastAttempt.hasError,
     noPermission |-> lastAttempt.hasError
                      /\ lastAttempt.statusCode \in NoPermissionStatusCodes]

\* C8 as stated: monitor.AddRequest has been called once for every attempt
\* made, whatever its status, with the flags of that attempt.
C8_MonitoredAfterEveryAttempt ==
    /\ monitorCount = attemptCount
    /\ attemptCount >= 1 => lastMonitor = ExpectedMonitor

\* C8, amended: monitor.AddRequest is called once after every attempt but one
\* that ends with 400 or 413, after which it is not called; failed is set
\* exactly when the attempt returned an error and noPermission exactly when
\* its status is 401, 402, 403 or 404.
C8_MonitoredUnlessNonRetriable ==
    /\ monitorCount = IF LastAttemptNonRetriable THEN attemptCount - 1 ELSE attemptCount
    /\ (attemptCount >= 1 /\ ~LastAttemptNonRetriable) => lastMonitor = ExpectedMonitor
    /\ LastAttemptNonRetriable => lastMonitor.attempt < attemptCount

C8_Witness ==
    /\ attemptCount >= 2
    /\ lastAttempt.statusCode = StatusForbidden
    /\ lastMonitor.attempt = attemptCount
    /\ lastMonitor.noPermission
    /\ lastMonitor.failed

\* C9: when the balance check was made and failed, the request has ended with
\* the single response 403 group_balance_not_enough, without a handler
\* attempt, a monitor record or a consumption record.
C9_BalanceNotEnough ==
    balanceFailed =>
        /\ pc = "done"
        /\ responses = <<[status |-> StatusForbidden, kind |-> GroupBalanceNotEnough]>>
        /\ attemptCount = 0
        /\ monitorCount = 0
        /\ consumeLog = <<>>

C9_Witness ==
    /\ balanceFailed
    /\ Len(responses) = 1
    /\ responses[1].status = StatusForbidden

\* C10: in a request on a designated channel getRandomChannel is never
\* called, the retry state is exhausted from its initialisation, every attempt
\* and every channel picked for a retry is the designated channel, and after
\* a no-permission first attempt the only way on is the end of the request.
C10_DesignatedChannel ==
    initial.designatedChannel =>
        /\ selectorCalls = 0
        /\ state # NoState => state.exhausted
        /\ pc \in {"retry", "attempt"} => state.exhausted
        /\ attemptCount >= 1 => lastAttempt.channel = initial.channel
        /\ pc = "attempt" => newChannel = initial.channel
        /\ (result.hasError /\ result.statusCode \in NoPermissionStatusCodes) =>
              /\ attemptCount = 1
              /\ pc \in {"retry", "done"}
              /\ pc = "retry" =>
                    \A pick \in getRetryChannel(state) : pick.err = ErrChannelsExhausted

C10_Witness ==
    /\ initial.designatedChannel
    /\ attemptCount = 3
    /\ pc = "done"
    /\ state.exhausted

\* C11: no step of a request turns the exhausted flag of the retry state
\* from true to false.
C11_ExhaustedMonotonic ==
    [][state.exhausted => state'.exhausted]_vars

C11_Witness ==
    /\ ~initial.designatedChannel
    /\ state.exhausted
    /\ selectorCalls >= 2
    /\ attemptCount = 3
    /\ pc = "done"

\* C12: every step of a request leaves in ignoreChannelIDs every id that was
\* in it, and the retry state starts with the ids the request entered with.
C12_IgnoreIdsGrow ==
    /\ [][\A k \in 1..Len(state.ignoreChannelIDs) :
             Contains(state'.ignoreChannelIDs, state.ignoreChannelIDs[k])]_vars
    /\ [](state # NoState =>
             \A k \in 1..Len(initial.ignoreChannelIDs) :
                 Contains(state.ignoreChannelIDs, initial.ignoreChannelIDs[k]))

C12_Witness ==
    /\ initial.ignoreChannelIDs = <<>>
    /\ Len(state.ignoreChannelIDs) = 2
    /\ state.ignoreChannelIDs[1] # state.ignoreChannelIDs[2]

\* The latest attempt ended with a no-permission status.
LastAttemptNoPermission ==
    lastAttempt.hasError /\ lastAttempt.statusCode \in NoPermissionStatusCodes

\* C13 as stated: once the retry state exists, an id is in ignoreChannelIDs
\* exactly when an attempt of the request on that channel ended with a
\* no-permission status.
C13_IgnoredIffNoPermission ==
    state # NoState =>
        \A id \in ChannelIDs :
            Contains(state.ignoreChannelIDs, id) <=> id \in noPermissionIDs

\* C13, amended: an id in ignoreChannelIDs was banned at request entry or
\* belongs to a channel on which an attempt ended no-permission; every id
\* banned at entry is in it; and a channel on which an attempt ended
\* no-permission is in it unless that attempt was the last one and ended the
\* request.
C13_IgnoredBannedOrNoPermission ==
    state # NoState =>
        \A id \in ChannelIDs :
            /\ Contains(state.ignoreChannelIDs, id) =>
                  (Contains(initial.ignoreChannelIDs, id) \/ id \in noPermissionIDs)
            /\ Contains(initial.ignoreChannelIDs, id) => Contains(state.ignoreChannelIDs, id)
            /\ (id \in noPermissionIDs /\ ~Contains(state.ignoreChannelIDs, id)) =>
                  /\ pc = "done"
                  /\ attemptCount >= 2
                  /\ lastAttempt.channel.id = id
                  /\ LastAttemptNoPermission

C13_Witness ==
    /\ state # NoState
    /\ Len(initial.ignoreChannelIDs) = 1
    /\ Len(state.ignoreChannelIDs) = 2
    /\ state.ignoreChannelIDs[2] \in noPermissionIDs
    /\ state.ignoreChannelIDs[1] \notin noPermissionIDs

\* The first attempt ended no-permission and has just been classified.
FirstNoPermissionClassified ==
    /\ pc = "retry"
    /\ attemptCount = 1
    /\ result.hasError
    /\ result.statusCode \in NoPermissionStatusCodes

\* C14 as stated: after a no-permission first attempt is classified its
\* channel is in ignoreChannelIDs and retryTimes is the configured value plus
\* one.
C14_FirstNoPermissionForgiven ==
    FirstNoPermissionClassified =>
        /\ Contains(state.ignoreChannelIDs, initial.channel.id)
        /\ state.retryTimes = cfgRetryTimes + 1

\* C14, amended: after a no-permission first attempt is classified its
\* channel is in ignoreChannelIDs, no lastHasPermissionChannel is set, and
\* retryTimes is the configured value, not incremented.
C14_FirstNoPermissionNotForgiven ==
    FirstNoPermissionClassified =>
        /\ Contains(state.ignoreChannelIDs, initial.channel.id)
        /\ state.lastHasPermissionChannel = NilChannel
        /\ state.retryTimes = cfgRetryTimes
        /\ i = 0

C14_Witness ==
    /\ FirstNoPermissionClassified
    /\ result.statusCode = StatusForbidden
    /\ cfgRetryTimes = 1
    /\ state.retryTimes = 1
    /\ state.ignoreChannelIDs = <<initial.channel.id>>

\* C15: the channel chosen for a retry attempt is not in ignoreChannelIDs at
\* the time it is chosen, whether getRandomChannel drew it or
\* lastHasPermissionChannel is reused.
C15_NeverBoundToIgnored ==
    pc = "attempt" => ~Contains(state.ignoreChannelIDs, newChannel.id)

\* The latest attempt ended with status 429.
LastAttemptRateLimited ==
    lastAttempt.hasError /\ lastAttempt.statusCode = StatusTooManyRequests

\* C16 as stated: a retry attempt bound to the channel of the attempt before
\* it, which ended with 429, is preceded by the delay.
C16_DelayedBeforeSameChannel ==
    (pc = "attempt" /\ newChannel = lastAttempt.channel /\ LastAttemptRateLimited) => slept

\* C16, amended: the delay is made before a retry attempt exactly when
\* lastHasPermissionChannel is reused (exhausted is true) and the attempt
\* before it ended with 429; the reused channel is then the channel of that
\* attempt.  A channel that getRandomChannel draws is retried without delay.
C16_DelayedBeforeReuse ==
    pc = "attempt" =>
        /\ slept <=> (state.exhausted /\ LastAttemptRateLimited)
        /\ slept => (/\ newChannel = state.lastHasPermissionChannel
                     /\ newChannel = lastAttempt.channel)

C16_Witness ==
    /\ pc = "attempt"
    /\ ~initial.designatedChannel
    /\ state.exhausted
    /\ LastAttemptRateLimited
    /\ slept

\* A request on two enabled, non-banned candidate channels all of whose
\* attempts so far ended with 429.
TwoChannelsOnly429 ==
    /\ ~initial.designatedChannel
    /\ Len(initial.migratedChannels) = 2
    /\ initial.ignoreChannelIDs = <<>>
    /\ attemptCount >= 1
    /\ only429

BothChannelsTried ==
    \A k \in 1..Len(initial.migratedChannels) : initial.migratedChannels[k].id \in triedIDs

\* C17 as stated: with two enabled, non-banned channels that only return
\* 429, a channel picked after both have been tried is the reused
\* lastHasPermissionChannel, with exhausted set.
C17_ExhaustedAfterBothRateLimited ==
    (TwoChannelsOnly429 /\ BothChannelsTried /\ pc = "attempt") =>
        /\ state.exhausted
        /\ newChannel = state.lastHasPermissionChannel

\* C17, amended: with two enabled, non-banned channels that only return 429,
\* ignoreChannelIDs stays empty and exhausted false, every retry channel is
\* drawn by getRandomChannel without error and without delay, retryTimes
\* stays as configured, and the loop never ends on a selector error.
C17_RateLimitedNeverExhausts ==
    (TwoChannelsOnly429 /\ state # NoState) =>
        /\ ~state.exhausted
        /\ state.ignoreChannelIDs = <<>>
        /\ state.retryTimes = cfgRetryTimes
        /\ attemptCount <= 1 + cfgRetryTimes
        /\ pc = "retry" =>
              \A pick \in getRetryChannel(state) :
                  /\ pick.err = ErrNil
                  /\ pick.selected
                  /\ ~pick.exhausted
                  /\ ~pick.slept
        /\ pc = "attempt" => ~slept
        /\ exit # "selector error"

C17_Witness ==
    /\ TwoChannelsOnly429
    /\ BothChannelsTried
    /\ attemptCount = 3
    /\ pc = "done"
    /\ exit = "budget"
    /\ ~state.exhausted

\* C18: a step that makes an attempt while the context is cancelled ends the
\* request, whatever the attempt returned and whatever budget is left; it
\* leaves ignoreChannelIDs, retryTimes and lastHasPermissionChannel as they
\* were, and the attempt's result is the last consumption record, marked
\* downstreamResult; nothing follows the end of a request.
C18_CancelledIsTerminal ==
    /\ [][(attemptCount' = attemptCount + 1 /\ ctxCancelled)
          => (/\ pc' = "done"
              /\ state'.ignoreChannelIDs = state.ignoreChannelIDs
              /\ state'.retryTimes = state.retryTimes
              /\ state'.lastHasPermissionChannel = state.lastHasPermissionChannel
              /\ state'.exhausted = state.exhausted
              /\ Len(consumeLog') = attemptCount'
              /\ consumeLog'[attemptCount'].resultAttempt = attemptCount'
              /\ consumeLog'[attemptCount'].downstreamResult)]_vars
    /\ Terminal

C18_Witness ==
    /\ pc = "done"
    /\ ctxCancelled
    /\ attemptCount = 2
    /\ LastAttemptNoPermission
    /\ ~state.exhausted
    /\ ~Contains(state.ignoreChannelIDs, lastAttempt.channel.id)
    /\ i + 1 < state.retryTimes
    /\ consumeLog[2].downstreamResult

\* The retry loop ended at the classification of a retry attempt made while
\* the context was cancelled.
CancelledLoopExit ==
    pc = "done" /\ exit = "done" /\ ctxCancelled /\ attemptCount >= 2

\* The one response that carries the last attempt's error.
LastAttemptResponse ==
    <<[status |-> lastAttempt.statusCode, kind |-> "upstream"]>>

\* C19 as stated: when the retry loop exits because the context is
\* cancelled, nothing is written to the client, even if the last attempt
\* ended with an error.
C19_NoResponseAfterCancelledExit ==
    CancelledLoopExit => responses = <<>>

\* C19: when the retry loop exits because the context is cancelled and the
\* last attempt ended with an error, that error is written to the client
\* once, with the attempt's status code; nothing is written when the last
\* attempt succeeded.
C19_ErrorWrittenAfterCancelledExit ==
    CancelledLoopExit =>
        IF lastAttempt.hasError
        THEN responses = LastAttemptResponse
        ELSE responses = <<>>

C19_Witness ==
    /\ CancelledLoopExit
    /\ lastAttempt.hasError
    /\ Len(responses) = 1

\* C20: a request that made an attempt writes nothing to the client while
\* it runs; when it ends, it has written exactly one response, with the
\* last attempt's status code, if the last attempt ended with an error, and
\* none if the last attempt succeeded; this holds too when the selector
\* ended the loop, the last attempt being then the one before.
C20_ErrorResponseOnce ==
    attemptCount >= 1 =>
        IF pc = "done" /\ lastAttempt.hasError
        THEN /\ Len(responses) = 1
             /\ responses[1].status = lastAttempt.statusCode
             /\ responses[1].kind = "upstream"
        ELSE responses = <<>>

C20_Witness ==
    /\ pc = "done"
    /\ exit = "selector error"
    /\ Len(state.migratedChannels) > 0
    /\ \A k \in 1..Len(state.migratedChannels) :
          Contains(state.ignoreChannelIDs, state.migratedChannels[k].id)
    /\ attemptCount >= 2
    /\ lastAttempt.hasError
    /\ responses = LastAttemptResponse

\* C21 as stated: a run of the initial selection returns the channel that
\* any other run on the same model cache, availability sets, error rates,
\* banned ids and random numbers returns.
C21_SameInputsSameChannel ==
    fbResult.done =>
        \A orders \in IterationOrders(fb.mc, fb.availableSet) :
            getChannelWithFallbackRun(fb.mc, fb.availableSet, fb.errorRates, fb.ids,
                                      orders, fb.r, fb.u).channel = fbResult.channel

\* The candidate union of an initial selection, and its channels that are
\* Enabled, and Enabled and not banned.
FallbackUnion == channelMap(fb.mc, fb.availableSet)
FallbackEnabled == {id \in DOMAIN FallbackUnion : FallbackUnion[id].status = ChannelStatusEnabled}
FallbackUsable == {id \in FallbackEnabled : ~Contains(fb.ids, id)}

\* C27: the initial selection returns a banned channel only when no
\* candidate is Enabled and not banned; it returns ErrChannelsNotFound
\* exactly when the candidate union is empty, ErrChannelsExhausted exactly
\* when the union has channels and none is Enabled, and a channel of the
\* union that is Enabled otherwise; its candidate list is the union, each id
\* once.
C27_FallbackSelection ==
    fbResult.done =>
        LET run == fbResult
            ids == {run.migratedChannels[k].id : k \in 1..Len(run.migratedChannels)}
        IN  /\ (run.err = ErrNil /\ Contains(fb.ids, run.channel.id)) => FallbackUsable = {}
            /\ run.err = ErrChannelsNotFound <=> DOMAIN FallbackUnion = {}
            /\ run.err = ErrChannelsExhausted <=>
                   (DOMAIN FallbackUnion # {} /\ FallbackEnabled = {})
            /\ run.err \in {ErrNil, ErrChannelsNotFound, ErrChannelsExhausted}
            /\ run.err = ErrNil => (/\ run.channel.id \in FallbackEnabled
                                    /\ run.channel = FallbackUnion[run.channel.id])
            /\ run.err # ErrNil => run.channel = NilChannel
            /\ Cardinality(ids) = Len(run.migratedChannels)
            /\ ids = DOMAIN FallbackUnion
            /\ FallbackUsable # {} => run.calls = 1

\* A banned channel returned by the second selection, from a union that
\* holds a channel in both availability sets and a Disabled one.
C27_Witness ==
    /\ fbResult.done
    /\ fbResult.err = ErrNil
    /\ fbResult.calls = 2
    /\ Contains(fb.ids, fbResult.channel.id)
    /\ Len(fb.availableSet) = 2
    /\ \E k \in 1..Len(fb.mc["a"]) : \E j \in 1..Len(fb.mc["b"]) : fb.mc["a"][k].id = fb.mc["b"][j].id
    /\ FallbackEnabled # DOMAIN FallbackUnion

\* C22: the initial channel record, once built, never changes; the retry
\* state carries the error rates and the candidate list read at entry,
\* unchanged; and a channel the random selector hands to a retry is one it
\* can return on those two and the ignore list of the moment.
C22_EntrySnapshots ==
    /\ [][initial # NoInitial => initial' = initial]_vars
    /\ [](state # NoState =>
            /\ state.errorRates = initial.errorRates
            /\ state.migratedChannels = initial.migratedChannels)
    /\ [][(/\ pc = "retry"
           /\ pc' = "attempt"
           /\ selectorCalls' = selectorCalls + 1
           /\ ~state'.exhausted)
          => newChannel' \in {res.channel :
                 res \in getRandomChannelResults(initial.migratedChannels, initial.errorRates,
                                                 state.ignoreChannelIDs)}]_vars

\* A retry on a channel the random selector drew from a two-channel list
\* with observed error rates, after the monitor recorded a failure.
C22_Witness ==
    /\ pc = "attempt"
    /\ ~state.exhausted
    /\ ~initial.designatedChannel
    /\ initial.errorRates # <<>>
    /\ Len(initial.migratedChannels) = NumChannels
    /\ monitorCount >= 1
    /\ lastMonitor.failed
    /\ newChannel # lastAttempt.channel
    /\ state.errorRates = initial.errorRates

\* The filtered list of the selector call, its weights and their sum.
SelFiltered == filterChannels(sel.channels, sel.ignoreChannel)
SelWeights == cachedPrioritys(SelFiltered, sel.errorRates)
SelTotalWeight == totalWeight(SelFiltered, sel.errorRates)

\* clamp(errorRate, 0.1, 1.0), in hundredths.
ClampedRate(errorRate) ==
    IF errorRate > 100 THEN 100 ELSE IF errorRate < 10 THEN 10 ELSE errorRate

WalkReturns ==
    \A d \in WideDraws(sel.channels, sel.errorRates, sel.ignoreChannel) :
        Walk(SelWeights, d[1], 1) # 0

PositiveWeightWalks ==
    (selResult.done /\ Len(SelFiltered) >= 2 /\ SelTotalWeight > 0) =>
        (WalkReturns /\ selResult.err = ErrNil)

\* C24 as stated: in a call with two or more filtered channels of any int32
\* priorities, whenever the total weight is not 0, rand.Int32N is called
\* with a positive argument and the walk returns a channel before the loop
\* ends.
C24_WalkAlwaysReturns ==
    (selResult.done /\ Len(SelFiltered) >= 2 /\ SelTotalWeight # 0) =>
        /\ SelTotalWeight > 0
        /\ selResult.err = ErrNil
        /\ WalkReturns

\* C25: once exhausted is set, lastHasPermissionChannel, ignoreChannelIDs
\* and retryTimes keep their values and the random selector is not called
\* again; an attempt made while exhausted is bound to
\* lastHasPermissionChannel; and when that is nil the loop ends at its next
\* iteration with no further attempt.
C25_OnlyReuseWhenExhausted ==
    /\ [][state.exhausted =>
            /\ state'.lastHasPermissionChannel = state.lastHasPermissionChannel
            /\ state'.ignoreChannelIDs = state.ignoreChannelIDs
            /\ state'.retryTimes = state.retryTimes
            /\ selectorCalls' = selectorCalls]_vars
    /\ []((pc = "attempt" /\ state.exhausted) =>
            /\ newChannel # NilChannel
            /\ newChannel = state.lastHasPermissionChannel)
    /\ [][(pc = "retry" /\ state.exhausted /\ state.lastHasPermissionChannel = NilChannel)
          => (pc' = "done" /\ attemptCount' = attemptCount)]_vars

\* A retry bound to lastHasPermissionChannel after the random selector ran
\* out of channels during the request, and after an earlier reuse of it.
C25_Witness ==
    /\ pc = "attempt"
    /\ state.exhausted
    /\ ~initial.designatedChannel
    /\ attemptCount >= 3
    /\ newChannel = state.lastHasPermissionChannel
    /\ lastAttempt.channel = newChannel
    /\ Len(state.ignoreChannelIDs) >= 1

\* The retry loop has ended, by any of its exits.
LoopExited ==
    pc = "done" /\ exit \in {"done", "budget", "selector error", "prepare error"}

\* C26: where the loop reads state.meta and state.result, at the top of an
\* iteration (getRetryChannel's delay check, the record of the previous
\* attempt) and after the loop (the last record, the error written to the
\* client), both are non-nil and are the meta and the result of the latest
\* attempt, the result carrying an error when the loop goes on; and the
\* record made on leaving the loop is of that attempt.
C26_SlotsHoldLatestAttempt ==
    /\ (pc = "retry" \/ LoopExited) =>
          /\ state.meta # NilMeta
          /\ ~state.result.isNil
          /\ state.meta.attempt = attemptCount
          /\ state.result.attempt = attemptCount
          /\ state.meta.channel = lastAttempt.channel
          /\ state.result.hasError = lastAttempt.hasError
          /\ state.result.statusCode = lastAttempt.statusCode
    /\ pc = "retry" => state.result.hasError
    /\ LoopExited =>
          /\ Len(consumeLog) = attemptCount
          /\ consumeLog[attemptCount].metaAttempt = attemptCount
          /\ consumeLog[attemptCount].resultAttempt = attemptCount

\* The loop left because prepareRetry failed, after an earlier retry had
\* cleared and refilled the slots.
C26_Witness ==
    /\ LoopExited
    /\ exit = "prepare error"
    /\ attemptCount >= 2
    /\ state.meta.attempt = attemptCount
    /\ state.result.attempt = attemptCount
    /\ state.result.hasError

\* The ids of the candidate list of the request.
CandidateIDs == {initial.migratedChannels[k].id : k \in 1..Len(initial.migratedChannels)}

\* C28: when every call returns, the request ends; it makes at most
\* 1 + retryTimes + (number of candidate channels) attempts; inside the
\* loop i is at most state.retryTimes - 1; and the budget grows only by 1
\* at a time, each time together with the entry into ignoreChannelIDs of the
\* id of a candidate that was not in it.
C28_Terminates ==
    /\ <>(pc = "done")
    /\ [](attemptCount <= 1 + cfgRetryTimes + Cardinality(CandidateIDs))
    /\ [](pc \in {"retry", "attempt"} => (0 <= i /\ i <= state.retryTimes - 1))
    /\ [](state # NoState =>
            /\ cfgRetryTimes <= state.retryTimes
            /\ state.retryTimes <= cfgRetryTimes + Cardinality(CandidateIDs))
    /\ [][(state # NoState /\ state'.retryTimes # state.retryTimes) =>
            /\ state'.retryTimes = state.retryTimes + 1
            /\ ~Contains(state.ignoreChannelIDs, newChannel.id)
            /\ newChannel.id \in CandidateIDs
            /\ state'.ignoreChannelIDs = Append(state.ignoreChannelIDs, newChannel.id)]_vars

\* A request that ended after as many attempts as the bound allows, every
\* candidate having been forgiven once.
C28_Witness ==
    /\ pc = "done"
    /\ exit = "budget"
    /\ cfgRetryTimes >= 1
    /\ Cardinality(CandidateIDs) >= 2
    /\ state.retryTimes = cfgRetryTimes + Cardinality(CandidateIDs)
    /\ attemptCount = 1 + cfgRetryTimes + Cardinality(CandidateIDs)

====
